---- MODULE Spec2Model ----
(***************************************************************************)
(* State-machine model of the Ecommerce-App authorization layer (REST API  *)
(* permission classes, serializers, vendor form views) and of the order    *)
(* placement transaction (session cart, place_order).                      *)
(*                                                                         *)
(* Money is counted in whole units, ids are small naturals, users are      *)
(* named by their usernames.  Every request handler is one action, except  *)
(* place_order, whose row locking (select_for_update) is taken row by row  *)
(* so that concurrent checkouts interleave.                                *)
(***************************************************************************)
EXTENDS Integers, Sequences, FiniteSets, TLC

\* ------------------------------------------------------------------ bounds
MaxStores == 3      \* store ids are 1..MaxStores
MaxProducts == 2    \* product ids are 1..MaxProducts
MaxQty == 1         \* largest quantity a cart line reaches

\* --------------------------------------------------------------- principals
\* The users and their groups, as the test fixtures create them.
Anon == "anon"
Users == {"vendor1", "vendor2", "buyer1", "buyer2", "staff1", "admin"}
Principals == {Anon, "vendor1", "vendor2", "buyer1", "staff1", "admin"}
StaffUsers == {"staff1", "admin"}
Superusers == {"admin"}
GroupMembers == [Vendors |-> {"vendor1", "vendor2"}, Buyers |-> {"buyer1", "buyer2"}]
Shoppers == {"buyer1", "buyer2"}
PermGrantees == {"vendor1"}
AdminVendorInputs == {"buyer1"}
StoreNameInputs == {"Other"}
ReviewPrincipals == {Anon, "vendor1", "buyer1", "staff1"}
RatingInputs == {0, 3, 5, 6}
ReviewPaths == {"api", "form"}

\* A product row is a function over its fields; store 0 is the NULL store.
Fields == {"store", "name", "price", "stock"}
NullStore == 0
StoreIds == 1..MaxStores
ProductIds == 1..MaxProducts
Names == {"Widget", "Gadget"}

\* Request inputs.
StoreNames == {"Acme", "Other"}
StoreInputs == StoreIds \cup {NullStore}
NameInputs == {"Gadget"}
PriceInputs == {-1, 2}
StockInputs == {-1, 2}
Methods == {"PATCH", "PUT"}

VARIABLES
    stores,       \* store id -> [vendor, name]
    products,     \* product id -> [store, name, price, stock]
    userPerms,    \* users holding can_change_product_price directly
    groupPerms,   \* groups holding can_change_product_price
    nextStore,    \* the id the next created store gets
    nextProduct,  \* the id the next created product gets
    orders,       \* sequence of [user, total, items]
    cart,         \* session cart of each shopper: product id -> quantity
    hasCart,      \* whether the shopper's session holds the key "cart"
    pc,           \* place_order position of each shopper
    snap,         \* the cart place_order read at its start
    rows,         \* product rows a place_order run holds locked, as it read them
    reviews,      \* set of [user, product, rating, verified]
    inflight,     \* review submissions past their duplicate check, not yet saved
    last          \* the last catalog or checkout request and its outcome

vars == <<stores, products, userPerms, groupPerms, nextStore, nextProduct,
          orders, cart, hasCart, pc, snap, rows, reviews, inflight, last>>

catalogVars == <<stores, products, nextStore, nextProduct>>
permVars == <<userPerms, groupPerms>>
orderVars == <<orders, cart, hasCart, pc, snap, rows>>
reviewVars == <<reviews, inflight>>

\* ---------------------------------------------------------------- helpers
EmptyFn == [x \in {} |-> 0]

Restrict(f, S) == [x \in S |-> f[x]]

RECURSIVE SumOver(_, _)
SumOver(f, S) ==
    IF S = {} THEN 0
    ELSE LET x == CHOOSE y \in S : TRUE IN f[x] + SumOver(f, S \ {x})

IsAuthenticated(u) == u # Anon

InGroup(u, g) == u \in GroupMembers[g]

\* api/permissions.py: _is_staff_or_superuser
IsStaffOrSuperuser(u) == u \in StaffUsers \/ u \in Superusers

\* ecommerce/views.py: _is_vendor
IsVendorUser(u) == IsAuthenticated(u) /\ InGroup(u, "Vendors")

\* Faulty variant: the lookup finds the permission for every user.
EveryoneHoldsPricePerm == Users

\* Users holding can_change_product_price directly or through a group
\* (auth tables read by _user_has_price_perm and by has_perm).
PricePermHolders ==
    userPerms \cup {u \in Users : \E g \in groupPerms : InGroup(u, g)}

\* api/views.py: _user_has_price_perm
UserHasPricePerm(u) ==
    IF ~IsAuthenticated(u) THEN FALSE
    ELSE IF u \in Superusers THEN TRUE
    ELSE u \in PricePermHolders

\* user.has_perm("ecommerce.can_change_product_price") as the serializer calls it
HasPerm(u) ==
    /\ IsAuthenticated(u)
    /\ (u \in Superusers \/ u \in PricePermHolders)

\* api/permissions.py: IsVendor.has_permission for a write method
IsVendorPermission(u) ==
    IF IsStaffOrSuperuser(u) THEN TRUE
    ELSE IsAuthenticated(u) /\ InGroup(u, "Vendors")

\* rest_framework IsAuthenticatedOrReadOnly for a write method
IsAuthenticatedOrReadOnly(u) == IsAuthenticated(u)

\* Faulty variant: the ownership comparison is left out.
AnyAuthenticatedMayWrite(u, p) == IsAuthenticated(u)

\* api/permissions.py: IsOwnerOrReadOnly.has_object_permission for a write method
IsOwnerOrReadOnly(u, p) ==
    IF ~IsAuthenticated(u) THEN FALSE
    ELSE IF IsStaffOrSuperuser(u) THEN TRUE
    ELSE IF p.store = NullStore THEN FALSE
    ELSE stores[p.store].vendor = u

\* Faulty variant: writers do not wait for the row locks.
NeverLocked(pk) == FALSE

\* Rows locked by a running place_order block UPDATE and DELETE of the row.
Locked(pk) == \E s \in Shoppers : pk \in DOMAIN rows[s]

Response(op, u, target, out) == [op |-> op, user |-> u, target |-> target, outcome |-> out]

\* Faulty variant: OrderItem.product does not protect the product.
Unprotected(pk) == FALSE

\* An OrderItem references the product (on_delete=PROTECT).
Ordered(pk) == \E i \in 1..Len(orders) : \E it \in orders[i].items : it.product = pk

\* Products of a store (related_name="products", on_delete=CASCADE).
ProductsOf(sid) == {pk \in DOMAIN products : products[pk].store = sid}

\* Request payloads of the API: any subset of the fields may be present.
FormInputs == [store : StoreInputs, name : NameInputs, price : PriceInputs, stock : StockInputs]
Payloads == {Restrict(full, F) : full \in FormInputs, F \in SUBSET Fields}

Has(data, f) == f \in DOMAIN data

\* ------------------------------------------------- API: ProductSerializer
\* Field-level validation of ProductSerializer: the store must exist (or be
\* null), validate_price and validate_stock reject negatives, and a full
\* (non-partial) payload must name the required fields name and price.
ProductFieldsValid(data, partial) ==
    /\ Has(data, "store") => (data["store"] = NullStore \/ data["store"] \in DOMAIN stores)
    /\ Has(data, "name") => data["name"] \in Names
    /\ Has(data, "price") => data["price"] >= 0
    /\ Has(data, "stock") => data["stock"] >= 0
    /\ ~partial => (Has(data, "name") /\ Has(data, "price"))

\* ProductSerializer.validate; instance is a product id, or 0 on create.
\* Returns "ok" or the reason of the first check that fails.
SerializerValidate(u, instance, data) ==
    LET given == IF Has(data, "store") THEN data["store"] ELSE NullStore
        own == IF instance = 0 THEN NullStore ELSE products[instance].store
        store == IF given # NullStore THEN given ELSE own
    IN  IF ~IsAuthenticated(u) THEN "AuthenticationRequired"
        ELSE IF ~InGroup(u, "Vendors") THEN "RoleNotPermitted"
        ELSE IF store = NullStore THEN "InvalidValue"
        ELSE IF stores[store].vendor # u THEN "NotOwner"
        ELSE IF instance # 0 /\ Has(data, "store") /\ given = NullStore THEN "ServerError"
        ELSE IF instance # 0 /\ Has(data, "store") /\ given # products[instance].store
             THEN "StoreImmutable"
        ELSE IF instance # 0 /\ Has(data, "price") /\ ~HasPerm(u) THEN "MissingFieldPermission"
        ELSE "ok"

\* ProductSerializer.update: the decisive guard, then ModelSerializer.update.
SerializerUpdateAllowed(u, data) == Has(data, "price") => HasPerm(u)

Merge(p, data) == [f \in Fields |-> IF Has(data, f) THEN data[f] ELSE p[f]]

\* ProductDetailAPIView PATCH / PUT, from dispatch to serializer.save().
ApiProductUpdateOutcome(u, method, pk, data) ==
    IF Has(data, "price") /\ ~UserHasPricePerm(u) THEN "MissingFieldPermission"
    ELSE IF pk \notin DOMAIN products THEN "NotFound"
    ELSE IF ~IsOwnerOrReadOnly(u, products[pk])
         THEN (IF IsAuthenticated(u) THEN "NotOwner" ELSE "AuthenticationRequired")
    ELSE IF ~ProductFieldsValid(data, method = "PATCH") THEN "InvalidValue"
    ELSE IF SerializerValidate(u, pk, data) # "ok" THEN SerializerValidate(u, pk, data)
    ELSE IF Has(data, "price") /\ ~UserHasPricePerm(u) THEN "MissingFieldPermission"
    ELSE IF ~SerializerUpdateAllowed(u, data) THEN "MissingFieldPermission"
    ELSE "ok"

ApiProductUpdate(u, method, pk, data) ==
    /\ ~Locked(pk)
    /\ LET out == ApiProductUpdateOutcome(u, method, pk, data) IN
        /\ products' = IF out = "ok" THEN [products EXCEPT ![pk] = Merge(@, data)]
                       ELSE products
        /\ last' = Response("api_product_update", u, pk, out)
    /\ UNCHANGED <<stores, nextStore, nextProduct, permVars, orderVars, reviewVars>>

\* ProductDetailAPIView DELETE: IsOwnerOrReadOnly, then Model.delete(), which
\* raises ProtectedError when an OrderItem references the product.
ApiProductDeleteOutcome(u, pk) ==
    IF pk \notin DOMAIN products THEN "NotFound"
    ELSE IF ~IsOwnerOrReadOnly(u, products[pk])
         THEN (IF IsAuthenticated(u) THEN "NotOwner" ELSE "AuthenticationRequired")
    ELSE IF Ordered(pk) THEN "ServerError"
    ELSE "ok"

ApiProductDelete(u, pk) ==
    /\ ~Locked(pk)
    /\ LET out == ApiProductDeleteOutcome(u, pk) IN
        /\ products' = IF out = "ok" THEN Restrict(products, DOMAIN products \ {pk})
                       ELSE products
        /\ last' = Response("api_product_delete", u, pk, out)
    /\ reviews' = {r \in reviews : r.product \in DOMAIN products'}
    /\ UNCHANGED <<stores, nextStore, nextProduct, permVars, orderVars, inflight>>

\* Faulty variant: the object-level validate of the serializer is skipped.
ApiProductCreateUnvalidated(u, data) ==
    IF ~IsAuthenticatedOrReadOnly(u) THEN "AuthenticationRequired"
    ELSE IF ~IsVendorPermission(u) THEN "RoleNotPermitted"
    ELSE IF ~ProductFieldsValid(data, FALSE) THEN "InvalidValue"
    ELSE "ok"

\* ProductListCreateAPIView POST.
ApiProductCreateOutcome(u, data) ==
    IF ~IsAuthenticatedOrReadOnly(u) THEN "AuthenticationRequired"
    ELSE IF ~IsVendorPermission(u) THEN "RoleNotPermitted"
    ELSE IF ~ProductFieldsValid(data, FALSE) THEN "InvalidValue"
    ELSE SerializerValidate(u, 0, data)

\* Product.stock has default=0; the other fields are present once validation passed.
NewProduct(data) == [f \in Fields |-> IF Has(data, f) THEN data[f] ELSE 0]

ApiProductCreate(u, data) ==
    /\ nextProduct <= MaxProducts
    /\ LET out == ApiProductCreateOutcome(u, data) IN
        /\ products' = IF out = "ok"
                       THEN [pk \in DOMAIN products \cup {nextProduct} |->
                                IF pk = nextProduct THEN NewProduct(data) ELSE products[pk]]
                       ELSE products
        /\ nextProduct' = IF out = "ok" THEN nextProduct + 1 ELSE nextProduct
        /\ last' = Response("api_product_create", u, nextProduct, out)
    /\ UNCHANGED <<stores, nextStore, permVars, orderVars, reviewVars>>

\* ---------------------------------------------------- API: StoreSerializer
\* StoreListCreateAPIView POST; vendor is a read-only field, so the vendor the
\* client names is dropped and create() writes request.user.
ApiStoreCreateOutcome(u, name) ==
    IF ~IsAuthenticatedOrReadOnly(u) THEN "AuthenticationRequired"
    ELSE IF ~IsVendorPermission(u) THEN "RoleNotPermitted"
    ELSE IF name \notin StoreNames THEN "InvalidValue"
    ELSE IF ~InGroup(u, "Vendors") THEN "RoleNotPermitted"
    ELSE "ok"

AddStore(vendor, name) ==
    [sid \in DOMAIN stores \cup {nextStore} |->
        IF sid = nextStore THEN [vendor |-> vendor, name |-> name] ELSE stores[sid]]

\* Faulty variant: the vendor named in the request body is written.
ApiStoreCreateTrusting(u, claimedVendor, name) ==
    /\ nextStore <= MaxStores
    /\ LET out == ApiStoreCreateOutcome(u, name) IN
        /\ stores' = IF out = "ok" THEN AddStore(claimedVendor, name) ELSE stores
        /\ nextStore' = IF out = "ok" THEN nextStore + 1 ELSE nextStore
        /\ last' = Response("api_store_create", u, nextStore, out)
    /\ UNCHANGED <<products, nextProduct, permVars, orderVars, reviewVars>>

ApiStoreCreate(u, claimedVendor, name) ==
    /\ nextStore <= MaxStores
    /\ LET out == ApiStoreCreateOutcome(u, name) IN
        /\ stores' = IF out = "ok" THEN AddStore(u, name) ELSE stores
        /\ nextStore' = IF out = "ok" THEN nextStore + 1 ELSE nextStore
        /\ last' = Response("api_store_create", u, nextStore, out)
    /\ UNCHANGED <<products, nextProduct, permVars, orderVars, reviewVars>>


\* ------------------------------------------------ vendor form views (HTML)
\* login_required, then user_passes_test(_is_vendor_or_403).
VendorGate(u) ==
    IF ~IsAuthenticated(u) THEN "AuthenticationRequired"
    ELSE IF ~IsVendorUser(u) THEN "RoleNotPermitted"
    ELSE "ok"

\* user.stores.all(): the queryset ProductForm offers for the store field.
StoresOfUser(u) == {sid \in DOMAIN stores : stores[sid].vendor = u}

\* ProductForm.is_valid(): store blank or one of the user's stores, any
\* decimal price, stock >= 0 (PositiveIntegerField).
ProductFormValid(u, form) ==
    /\ form.store = NullStore \/ form.store \in StoresOfUser(u)
    /\ form.name \in Names
    /\ form.stock >= 0

FormRow(form) == [f \in Fields |-> form[f]]

\* ecommerce/views.py: store_create
StoreCreateOutcome(u, name) ==
    IF VendorGate(u) # "ok" THEN VendorGate(u)
    ELSE IF name \notin StoreNames THEN "InvalidValue"
    ELSE "ok"

StoreCreate(u, name) ==
    /\ nextStore <= MaxStores
    /\ LET out == StoreCreateOutcome(u, name) IN
        /\ stores' = IF out = "ok" THEN AddStore(u, name) ELSE stores
        /\ nextStore' = IF out = "ok" THEN nextStore + 1 ELSE nextStore
        /\ last' = Response("store_create", u, nextStore, out)
    /\ UNCHANGED <<products, nextProduct, permVars, orderVars, reviewVars>>

\* ecommerce/views.py: _own_store_or_404
OwnStore(u, pk) == pk \in DOMAIN stores /\ stores[pk].vendor = u

\* ecommerce/views.py: store_update
StoreUpdateOutcome(u, pk, name) ==
    IF VendorGate(u) # "ok" THEN VendorGate(u)
    ELSE IF ~OwnStore(u, pk) THEN "NotFound"
    ELSE IF name \notin StoreNames THEN "InvalidValue"
    ELSE "ok"

StoreUpdate(u, pk, name) ==
    /\ LET out == StoreUpdateOutcome(u, pk, name) IN
        /\ stores' = IF out = "ok" THEN [stores EXCEPT ![pk].name = name] ELSE stores
        /\ last' = Response("store_update", u, pk, out)
    /\ UNCHANGED <<products, nextStore, nextProduct, permVars, orderVars, reviewVars>>

\* ecommerce/views.py: store_delete; Store.delete() cascades to the store's
\* products and raises ProtectedError when an OrderItem references one.
StoreDeleteOutcome(u, pk) ==
    IF VendorGate(u) # "ok" THEN VendorGate(u)
    ELSE IF ~OwnStore(u, pk) THEN "NotFound"
    ELSE IF \E p \in ProductsOf(pk) : Ordered(p) THEN "ServerError"
    ELSE "ok"

StoreDelete(u, pk) ==
    /\ pk \in DOMAIN stores => \A p \in ProductsOf(pk) : ~Locked(p)
    /\ LET out == StoreDeleteOutcome(u, pk) IN
        /\ stores' = IF out = "ok" THEN Restrict(stores, DOMAIN stores \ {pk}) ELSE stores
        /\ products' = IF out = "ok"
                       THEN Restrict(products, DOMAIN products \ ProductsOf(pk))
                       ELSE products
        /\ last' = Response("store_delete", u, pk, out)
    /\ reviews' = {r \in reviews : r.product \in DOMAIN products'}
    /\ UNCHANGED <<nextStore, nextProduct, permVars, orderVars, inflight>>

\* ecommerce/views.py: product_create
ProductCreateOutcome(u, form) ==
    IF VendorGate(u) # "ok" THEN VendorGate(u)
    ELSE IF ~ProductFormValid(u, form) THEN "InvalidValue"
    ELSE IF form.store = NullStore THEN "ServerError"
    ELSE IF stores[form.store].vendor # u THEN "NotOwner"
    ELSE "ok"

ProductCreate(u, form) ==
    /\ nextProduct <= MaxProducts
    /\ LET out == ProductCreateOutcome(u, form) IN
        /\ products' = IF out = "ok"
                       THEN [pk \in DOMAIN products \cup {nextProduct} |->
                                IF pk = nextProduct THEN FormRow(form) ELSE products[pk]]
                       ELSE products
        /\ nextProduct' = IF out = "ok" THEN nextProduct + 1 ELSE nextProduct
        /\ last' = Response("product_create", u, nextProduct, out)
    /\ UNCHANGED <<stores, nextStore, permVars, orderVars, reviewVars>>

\* ecommerce/views.py: _own_product_or_404
OwnProduct(u, pk) ==
    /\ pk \in DOMAIN products
    /\ products[pk].store # NullStore
    /\ stores[products[pk].store].vendor = u

\* ecommerce/views.py: product_update
ProductUpdateOutcome(u, pk, form) ==
    IF VendorGate(u) # "ok" THEN VendorGate(u)
    ELSE IF ~OwnProduct(u, pk) THEN "NotFound"
    ELSE IF ~ProductFormValid(u, form) THEN "InvalidValue"
    ELSE IF form.store = NullStore THEN "ServerError"
    ELSE IF stores[form.store].vendor # u THEN "NotOwner"
    ELSE "ok"

ProductUpdate(u, pk, form) ==
    /\ ~Locked(pk)
    /\ LET out == ProductUpdateOutcome(u, pk, form) IN
        /\ products' = IF out = "ok" THEN [products EXCEPT ![pk] = FormRow(form)]
                       ELSE products
        /\ last' = Response("product_update", u, pk, out)
    /\ UNCHANGED <<stores, nextStore, nextProduct, permVars, orderVars, reviewVars>>

\* ecommerce/views.py: product_delete
ProductDeleteOutcome(u, pk) ==
    IF VendorGate(u) # "ok" THEN VendorGate(u)
    ELSE IF ~OwnProduct(u, pk) THEN "NotFound"
    ELSE IF Ordered(pk) THEN "ServerError"
    ELSE "ok"

ProductDelete(u, pk) ==
    /\ ~Locked(pk)
    /\ LET out == ProductDeleteOutcome(u, pk) IN
        /\ products' = IF out = "ok" THEN Restrict(products, DOMAIN products \ {pk})
                       ELSE products
        /\ last' = Response("product_delete", u, pk, out)
    /\ reviews' = {r \in reviews : r.product \in DOMAIN products'}
    /\ UNCHANGED <<stores, nextStore, nextProduct, permVars, orderVars, inflight>>

\* ------------------------------------------------------ admin and grants
\* StoreAdmin's change form: a staff superuser saves a store with the vendor
\* picked from all users (Store.vendor is a plain foreign key to the user).
AdminStoreChange(actor, sid, vendor) ==
    /\ actor \in StaffUsers /\ actor \in Superusers
    /\ sid \in DOMAIN stores /\ vendor \in Users
    /\ \A pk \in ProductsOf(sid) : ~Locked(pk)
    /\ stores' = [stores EXCEPT ![sid].vendor = vendor]
    /\ last' = Response("admin_store_change", actor, sid, "ok")
    /\ UNCHANGED <<products, nextStore, nextProduct, permVars, orderVars, reviewVars>>

\* user.user_permissions.add / remove of can_change_product_price
GrantPricePerm(u) ==
    /\ u \in PermGrantees /\ u \notin userPerms
    /\ userPerms' = userPerms \cup {u}
    /\ last' = Response("grant_perm", u, 0, "ok")
    /\ UNCHANGED <<catalogVars, groupPerms, orderVars, reviewVars>>

RevokePricePerm(u) ==
    /\ u \in userPerms
    /\ userPerms' = userPerms \ {u}
    /\ last' = Response("revoke_perm", u, 0, "ok")
    /\ UNCHANGED <<catalogVars, groupPerms, orderVars, reviewVars>>

\* group.permissions.add / remove of can_change_product_price on Vendors
GrantGroupPerm ==
    /\ "Vendors" \notin groupPerms
    /\ groupPerms' = groupPerms \cup {"Vendors"}
    /\ last' = Response("grant_group_perm", Anon, 0, "ok")
    /\ UNCHANGED <<catalogVars, userPerms, orderVars, reviewVars>>

RevokeGroupPerm ==
    /\ "Vendors" \in groupPerms
    /\ groupPerms' = groupPerms \ {"Vendors"}
    /\ last' = Response("revoke_group_perm", Anon, 0, "ok")
    /\ UNCHANGED <<catalogVars, userPerms, orderVars, reviewVars>>

\* ------------------------------------------------------------ initial state
\* The database as the test fixtures seed it: a store per vendor, a second
\* store of the first vendor, one product, the Vendors group holding the
\* price permission (signals.py), no order, empty sessions.
NoRequest == Response("none", Anon, 0, "ok")

Init ==
    /\ stores = (1 :> [vendor |-> "vendor1", name |-> "Acme"]) @@
                (2 :> [vendor |-> "vendor2", name |-> "Other"]) @@
                (3 :> [vendor |-> "vendor1", name |-> "Other"])
    /\ products = (1 :> [store |-> 1, name |-> "Widget", price |-> 1, stock |-> 2])
    /\ nextStore = 4
    /\ nextProduct = 2
    /\ userPerms = {}
    /\ groupPerms = {"Vendors"}
    /\ orders = <<>>
    /\ cart = [s \in Shoppers |-> EmptyFn]
    /\ hasCart = [s \in Shoppers |-> FALSE]
    /\ pc = [s \in Shoppers |-> "idle"]
    /\ snap = [s \in Shoppers |-> EmptyFn]
    /\ rows = [s \in Shoppers |-> EmptyFn]
    /\ reviews = {}
    /\ inflight = {}
    /\ last = NoRequest

\* ------------------------------------------- specification: access policy
\* Every update and delete of a product, through the API and through the
\* vendor form views, by every principal, with the permission grants an
\* administrator can make.
\* Ids a request may name: every existing product and one id naming none.
TargetIds == DOMAIN products \cup {nextProduct}

NextPolicy ==
    \/ \E u \in Principals, m \in Methods, pk \in TargetIds, data \in Payloads :
            ApiProductUpdate(u, m, pk, data)
    \/ \E u \in Principals, pk \in TargetIds : ApiProductDelete(u, pk)
    \/ \E u \in Principals, pk \in TargetIds, form \in FormInputs : ProductUpdate(u, pk, form)
    \/ \E u \in Principals, pk \in TargetIds : ProductDelete(u, pk)
    \/ \E u \in Users : GrantPricePerm(u)
    \/ \E u \in Users : RevokePricePerm(u)
    \/ GrantGroupPerm
    \/ RevokeGroupPerm

SpecPolicy == Init /\ [][NextPolicy]_vars

\* --------------------------------------------- specification: the catalog
\* Creation, renaming and deletion of stores and products by every principal,
\* through the API and the vendor form views, and the admin's reassignment of
\* a store to another user.  Requests carry well-formed rows; the field
\* validation is exercised by the access-policy specification.
NewRows == {f \in FormInputs : f.store # NullStore /\ f.price >= 0 /\ f.stock >= 0}
RenamePayloads == {data \in Payloads : DOMAIN data = {"name"}}

InitCatalog ==
    /\ stores = (1 :> [vendor |-> "vendor1", name |-> "Acme"]) @@
                (2 :> [vendor |-> "vendor2", name |-> "Other"])
    /\ products = (1 :> [store |-> 1, name |-> "Widget", price |-> 1, stock |-> 2])
    /\ nextStore = 3
    /\ nextProduct = 2
    /\ userPerms = {}
    /\ groupPerms = {"Vendors"}
    /\ orders = <<>>
    /\ cart = [s \in Shoppers |-> EmptyFn]
    /\ hasCart = [s \in Shoppers |-> FALSE]
    /\ pc = [s \in Shoppers |-> "idle"]
    /\ snap = [s \in Shoppers |-> EmptyFn]
    /\ rows = [s \in Shoppers |-> EmptyFn]
    /\ reviews = {}
    /\ inflight = {}
    /\ last = NoRequest

NextCatalog ==
    \/ \E u \in Principals, v \in AdminVendorInputs, name \in StoreNameInputs : ApiStoreCreate(u, v, name)
    \/ \E u \in Principals, name \in StoreNameInputs : StoreCreate(u, name)
    \/ \E u \in Principals, sid \in DOMAIN stores, name \in StoreNameInputs : StoreUpdate(u, sid, name)
    \/ \E u \in Principals, sid \in DOMAIN stores : StoreDelete(u, sid)
    \/ \E u \in Principals, data \in NewRows : ApiProductCreate(u, data)
    \/ \E u \in Principals, form \in NewRows : ProductCreate(u, form)
    \/ \E u \in Principals, m \in Methods, pk \in DOMAIN products, data \in RenamePayloads :
            ApiProductUpdate(u, m, pk, data)
    \/ \E u \in Principals, pk \in DOMAIN products : ApiProductDelete(u, pk)
    \/ \E u \in Principals, pk \in DOMAIN products : ProductDelete(u, pk)
    \/ \E a \in Principals, sid \in DOMAIN stores, v \in AdminVendorInputs :
            AdminStoreChange(a, sid, v)

SpecCatalog == InitCatalog /\ [][NextCatalog]_vars

\* ---------------------------------------------- specification: the stores
\* Every principal creates, renames and deletes stores through the API and
\* the vendor form views; an API body may name any user as the vendor.
ClaimedVendors == {"vendor2", "buyer1", "admin"}

StoreNameForms == StoreNames \cup {""}

NextStores ==
    \/ \E u \in Principals, v \in ClaimedVendors, name \in StoreNameForms :
            ApiStoreCreate(u, v, name)
    \/ \E u \in Principals, name \in StoreNameForms : StoreCreate(u, name)
    \/ \E u \in Principals, sid \in DOMAIN stores, name \in StoreNameForms :
            StoreUpdate(u, sid, name)
    \/ \E u \in Principals, sid \in DOMAIN stores : StoreDelete(u, sid)

SpecStores == InitCatalog /\ [][NextStores]_vars

\* ------------------------------------------- specification: product creation
\* Every principal posts products with any store, none included, through the
\* API and product_create, while vendors open further stores and delete
\* products.
NextCreate ==
    \/ \E u \in Principals, data \in Payloads : ApiProductCreate(u, data)
    \/ \E u \in Principals, form \in FormInputs : ProductCreate(u, form)
    \/ \E u \in Principals, name \in StoreNameInputs : StoreCreate(u, name)
    \/ \E u \in Principals, pk \in DOMAIN products : ProductDelete(u, pk)

SpecCreate == InitCatalog /\ [][NextCreate]_vars

\* ------------------------------------------------------ session cart views
\* A session sends one request at a time: the cart views of a shopper run
\* only while no place_order of that shopper is in progress.  Their responses
\* are flash messages only and are not recorded.

\* ecommerce/views.py: add_to_cart; _get_cart stores an empty cart in the
\* session when it holds none.
AddToCartOutcome(pk) == IF pk \notin DOMAIN products THEN "NotFound" ELSE "ok"

AddToCart(u, pk, q) ==
    /\ pc[u] = "idle"
    /\ LET out == AddToCartOutcome(pk)
           qty == IF q < 1 THEN 1 ELSE q
           cur == IF pk \in DOMAIN cart[u] THEN cart[u][pk] ELSE 0
       IN
        /\ cur + qty <= MaxQty
        /\ cart' = IF out = "ok"
                   THEN [cart EXCEPT ![u] = [k \in DOMAIN @ \cup {pk} |->
                                                IF k = pk THEN cur + qty ELSE @[k]]]
                   ELSE cart
        /\ hasCart' = IF out = "ok" THEN [hasCart EXCEPT ![u] = TRUE] ELSE hasCart
    /\ UNCHANGED <<catalogVars, permVars, orders, pc, snap, rows, last, reviewVars>>

\* ecommerce/views.py: update_cart_qty.  session.get("cart", {}) hands out a
\* fresh dict when the session holds no cart, and what is set in it is lost.
UpdatedCart(u, pk, q) ==
    IF ~hasCart[u] THEN cart[u]
    ELSE IF q <= 0 THEN Restrict(cart[u], DOMAIN cart[u] \ {pk})
    ELSE [k \in DOMAIN cart[u] \cup {pk} |-> IF k = pk THEN q ELSE cart[u][k]]

UpdateCartQty(u, pk, q) ==
    /\ pc[u] = "idle"
    /\ cart' = [cart EXCEPT ![u] = UpdatedCart(u, pk, q)]
    /\ UNCHANGED <<catalogVars, permVars, orders, hasCart, pc, snap, rows, last, reviewVars>>

\* ecommerce/views.py: remove_from_cart
RemoveFromCart(u, pk) ==
    /\ pc[u] = "idle"
    /\ cart' = [cart EXCEPT ![u] = Restrict(@, DOMAIN @ \ {pk})]
    /\ UNCHANGED <<catalogVars, permVars, orders, hasCart, pc, snap, rows, last, reviewVars>>

\* ecommerce/views.py: clear_cart
ClearCart(u) ==
    /\ pc[u] = "idle"
    /\ cart' = [cart EXCEPT ![u] = EmptyFn]
    /\ hasCart' = [hasCart EXCEPT ![u] = FALSE]
    /\ UNCHANGED <<catalogVars, permVars, orders, pc, snap, rows, last, reviewVars>>

\* ------------------------------------------------------------ place_order
\* place_order runs inside transaction.atomic.  It reads the session cart,
\* then SELECT ... FOR UPDATE locks the product rows the cart names, one row
\* at a time in the order the database scans them; a row another transaction
\* holds makes it wait.  With every row locked it validates and commits.

\* Lines 451-454: read the cart; an empty cart is refused at once.
PlaceOrderBegin(u) ==
    /\ pc[u] = "idle"
    /\ IF cart[u] = EmptyFn
       THEN /\ last' = Response("place_order", u, 0, "EmptyCart")
            /\ UNCHANGED <<pc, snap, rows>>
       ELSE /\ pc' = [pc EXCEPT ![u] = "locking"]
            /\ snap' = [snap EXCEPT ![u] = cart[u]]
            /\ rows' = [rows EXCEPT ![u] = EmptyFn]
            /\ UNCHANGED last
    /\ UNCHANGED <<catalogVars, permVars, orders, cart, hasCart, reviewVars>>

\* The rows of the query: products whose id is a key of the cart.
Wanted(u) == DOMAIN snap[u] \cap DOMAIN products

\* Faulty variant: the rows are read without select_for_update.
RowFreeUnlocked(u, pk) == TRUE

\* Row locks are exclusive.
RowFree(u, pk) == \A o \in Shoppers \ {u} : pk \notin DOMAIN rows[o]

\* Lines 456-457: lock and read one more row of the query.
PlaceOrderLock(u, pk) ==
    /\ pc[u] = "locking"
    /\ pk \in Wanted(u) \ DOMAIN rows[u]
    /\ RowFree(u, pk)
    /\ rows' = [rows EXCEPT ![u] = [k \in DOMAIN @ \cup {pk} |->
                                       IF k = pk THEN products[pk] ELSE @[k]]]
    /\ UNCHANGED <<catalogVars, permVars, orders, cart, hasCart, pc, snap, last, reviewVars>>

\* Lines 459-470: the lines of the order, from the rows as they were read.
Lines(u) == {pk \in DOMAIN rows[u] : snap[u][pk] > 0}

\* Faulty variant: the stock comparison is left out.
InsufficientUnchecked(u) == FALSE

\* Lines 465-467: a line asks for more than the stock read under the lock.
Insufficient(u) == \E pk \in Lines(u) : rows[u][pk].stock < snap[u][pk]

\* Faulty variant: the total is never accumulated.
NoLineTotals(u) == [pk \in Lines(u) |-> 0]

\* Lines 468-469: line_total = p.price * qty, summed into total.
LineTotals(u) == [pk \in Lines(u) |-> rows[u][pk].price * snap[u][pk]]

\* Faulty variant: the test for an order without lines is left out.
PlaceOrderOutcomeUnchecked(u) ==
    IF Insufficient(u) THEN "InsufficientStock" ELSE "ok"

\* Lines 465-467 and 472-474.
PlaceOrderOutcome(u) ==
    IF Insufficient(u) THEN "InsufficientStock"
    ELSE IF Lines(u) = {} THEN "EmptyCart"
    ELSE "ok"

Max(a, b) == IF a >= b THEN a ELSE b

\* Lines 476-481: the Order, its OrderItems and the stock written back.
NewOrder(u) ==
    [user |-> u,
     total |-> SumOver(LineTotals(u), Lines(u)),
     items |-> {[product |-> pk, qty |-> snap[u][pk], price_snapshot |-> rows[u][pk].price] :
                    pk \in Lines(u)}]

\* Faulty variant: the decremented stock is never saved.
StockNotSaved(u) == products

StockWritten(u) ==
    [pk \in DOMAIN products |->
        IF pk \in Lines(u)
        THEN [products[pk] EXCEPT !.stock = Max(0, rows[u][pk].stock - snap[u][pk])]
        ELSE products[pk]]

\* Faulty variant: the session cart is dropped whatever the outcome.
CartAlwaysCleared(u, out) == EmptyFn

\* Lines 483-485: the cart is deleted from the session after the writes; the
\* redirects of a rejection come before.
CartAfterOrder(u, out) == IF out = "ok" THEN EmptyFn ELSE cart[u]

\* Lines 459-504 and the commit that releases the row locks.
PlaceOrderFinish(u) ==
    /\ pc[u] = "locking"
    /\ Wanted(u) \subseteq DOMAIN rows[u]
    /\ LET out == PlaceOrderOutcome(u) IN
        /\ orders' = IF out = "ok" THEN Append(orders, NewOrder(u)) ELSE orders
        /\ products' = IF out = "ok" THEN StockWritten(u) ELSE products
        /\ cart' = [cart EXCEPT ![u] = CartAfterOrder(u, out)]
        /\ hasCart' = IF out = "ok" THEN [hasCart EXCEPT ![u] = FALSE] ELSE hasCart
        /\ last' = Response("place_order", u, Len(orders'), out)
    /\ pc' = [pc EXCEPT ![u] = "idle"]
    /\ snap' = [snap EXCEPT ![u] = EmptyFn]
    /\ rows' = [rows EXCEPT ![u] = EmptyFn]
    /\ UNCHANGED <<stores, nextStore, nextProduct, permVars, reviewVars>>

\* u waits for a row that o holds.
WaitsFor(u, o) ==
    /\ pc[u] = "locking"
    /\ \E pk \in Wanted(u) \ DOMAIN rows[u] : pk \in DOMAIN rows[o]

\* Two transactions waiting for each other: the database ends one of them
\* with an error, which rolls it back and releases its locks.
PlaceOrderDeadlock(u) ==
    /\ \E o \in Shoppers \ {u} : WaitsFor(u, o) /\ WaitsFor(o, u)
    /\ pc' = [pc EXCEPT ![u] = "idle"]
    /\ snap' = [snap EXCEPT ![u] = EmptyFn]
    /\ rows' = [rows EXCEPT ![u] = EmptyFn]
    /\ last' = Response("place_order", u, 0, "ServerError")
    /\ UNCHANGED <<catalogVars, permVars, orders, cart, hasCart, reviewVars>>

\* ---------------------------------------- specification: order placement
\* Two shoppers fill their carts and check out concurrently against the
\* stock of two products.
SeedProducts ==
    (1 :> [store |-> 1, name |-> "Widget", price |-> 1, stock |-> 2]) @@
    (2 :> [store |-> 2, name |-> "Gadget", price |-> 2, stock |-> 1])

InitOrder ==
    /\ stores = (1 :> [vendor |-> "vendor1", name |-> "Acme"]) @@
                (2 :> [vendor |-> "vendor2", name |-> "Other"])
    /\ products = SeedProducts
    /\ nextStore = 3
    /\ nextProduct = 3
    /\ userPerms = {}
    /\ groupPerms = {"Vendors"}
    /\ orders = <<>>
    /\ cart = [s \in Shoppers |-> EmptyFn]
    /\ hasCart = [s \in Shoppers |-> FALSE]
    /\ pc = [s \in Shoppers |-> "idle"]
    /\ snap = [s \in Shoppers |-> EmptyFn]
    /\ rows = [s \in Shoppers |-> EmptyFn]
    /\ reviews = {}
    /\ inflight = {}
    /\ last = NoRequest

NextOrder ==
    \/ \E u \in Shoppers, pk \in DOMAIN products, q \in 0..MaxQty : AddToCart(u, pk, q)
    \/ \E u \in Shoppers, pk \in DOMAIN products, q \in 0..MaxQty : UpdateCartQty(u, pk, q)
    \/ \E u \in Shoppers, pk \in DOMAIN products : RemoveFromCart(u, pk)
    \/ \E u \in Shoppers : ClearCart(u)
    \/ \E u \in Shoppers : PlaceOrderBegin(u)
    \/ \E u \in Shoppers, pk \in ProductIds : PlaceOrderLock(u, pk)
    \/ \E u \in Shoppers : PlaceOrderFinish(u)
    \/ \E u \in Shoppers : PlaceOrderDeadlock(u)

SpecOrder == InitOrder /\ [][NextOrder]_vars

\* ------------------------------------------------ specification: ledger
\* One shopper orders repeatedly while the vendor of product 1 changes its
\* price through the API.  update_cart_qty stores the quantity under any key,
\* so the cart may name a product that does not exist.
LedgerShoppers == {"buyer1"}

LedgerVendors == {"vendor1"}

\* PATCH / PUT bodies that carry the price alone.
PriceOnlyPayloads == {data \in Payloads : DOMAIN data = {"price"}}

\* models.py: OrderItem.line_total
LineTotal(it) == it.price_snapshot * it.qty

NextLedger ==
    \/ \E u \in LedgerShoppers, pk \in DOMAIN products, q \in 1..MaxQty : AddToCart(u, pk, q)
    \/ \E u \in LedgerShoppers, pk \in TargetIds, q \in 0..MaxQty : UpdateCartQty(u, pk, q)
    \/ \E u \in LedgerShoppers : PlaceOrderBegin(u)
    \/ \E u \in LedgerShoppers, pk \in ProductIds : PlaceOrderLock(u, pk)
    \/ \E u \in LedgerShoppers : PlaceOrderFinish(u)
    \/ \E u \in LedgerVendors, method \in Methods, pk \in DOMAIN products,
          data \in PriceOnlyPayloads : ApiProductUpdate(u, method, pk, data)

SpecLedger == InitOrder /\ [][NextLedger]_vars

\* ------------------------------------------- specification: protected rows
\* One shopper orders while the two vendors delete products, through the
\* form view and the API, and stores.
ProtectVendors == {"vendor1", "vendor2"}

NextProtect ==
    \/ \E u \in LedgerShoppers, pk \in DOMAIN products, q \in 1..MaxQty : AddToCart(u, pk, q)
    \/ \E u \in LedgerShoppers : PlaceOrderBegin(u)
    \/ \E u \in LedgerShoppers, pk \in ProductIds : PlaceOrderLock(u, pk)
    \/ \E u \in LedgerShoppers : PlaceOrderFinish(u)
    \/ \E u \in ProtectVendors, pk \in DOMAIN products : ProductDelete(u, pk)
    \/ \E u \in ProtectVendors, pk \in DOMAIN products : ApiProductDelete(u, pk)
    \/ \E u \in ProtectVendors, pk \in DOMAIN stores : StoreDelete(u, pk)

SpecProtect == InitOrder /\ [][NextProtect]_vars

\* ------------------------------------------------------------------ reviews
\* A review submission checks for an existing review of the pair and saves
\* afterwards; submissions of concurrent requests interleave between the two.
\* A client keeps one request per endpoint in flight.

\* api/permissions.py: IsBuyer.has_permission for a write method
IsBuyerPermission(u) ==
    IF IsStaffOrSuperuser(u) THEN TRUE
    ELSE IsAuthenticated(u) /\ InGroup(u, "Buyers")

\* Faulty variant: the rating is not validated.
RatingUnchecked(rating) == TRUE

\* validate_rating and the model validators: 1..5
RatingValid(rating) == 1 <= rating /\ rating <= 5

Reviewed(u, pk) == \E r \in reviews : r.user = u /\ r.product = pk

\* OrderItem.objects.filter(order__user=user, product=product).exists()
Purchased(u, pk) ==
    \E i \in 1..Len(orders) :
        orders[i].user = u /\ \E it \in orders[i].items : it.product = pk

\* ProductReviewListCreateAPIView POST up to the duplicate check.
ApiReviewOutcome(u, pk, rating) ==
    IF ~IsAuthenticatedOrReadOnly(u) THEN "AuthenticationRequired"
    ELSE IF ~IsBuyerPermission(u) THEN "RoleNotPermitted"
    ELSE IF ~RatingValid(rating) THEN "InvalidValue"
    ELSE IF pk \notin DOMAIN products THEN "NotFound"
    ELSE IF products[pk].store # NullStore /\ stores[products[pk].store].vendor = u
         THEN "SelfReview"
    ELSE IF Reviewed(u, pk) THEN "DuplicateReview"
    ELSE "ok"

\* ecommerce/views.py: add_review up to the duplicate check.
AddReviewOutcome(u, pk, rating) ==
    IF ~IsAuthenticated(u) THEN "AuthenticationRequired"
    ELSE IF pk \notin DOMAIN products THEN "NotFound"
    ELSE IF ~RatingValid(rating) THEN "InvalidValue"
    ELSE IF Reviewed(u, pk) THEN "DuplicateReview"
    ELSE "ok"

Submit(u, pk, rating, path, op, out) ==
    /\ \A r \in inflight : ~(r.user = u /\ r.path = path)
    /\ IF out = "ok"
       THEN /\ inflight' = inflight \cup
                    {[user |-> u, product |-> pk, rating |-> rating, path |-> path]}
            /\ UNCHANGED last
       ELSE /\ last' = Response(op, u, pk, out)
            /\ UNCHANGED inflight
    /\ UNCHANGED <<catalogVars, permVars, orderVars, reviews>>

\* The verified field of the payload is read-only and dropped.
ApiReviewSubmit(u, pk, rating, claimedVerified) ==
    Submit(u, pk, rating, "api", "api_review_create", ApiReviewOutcome(u, pk, rating))

AddReviewSubmit(u, pk, rating) ==
    Submit(u, pk, rating, "form", "add_review", AddReviewOutcome(u, pk, rating))

\* Faulty variant: the table has no uniqueness constraint.
NoUniqueConstraint(u, pk) == FALSE

\* Review.Meta: UniqueConstraint(fields=["user", "product"]) at INSERT.
UniqueViolation(u, pk) == Reviewed(u, pk)

\* The verified flag each path stores: serializer.save(user, product) leaves
\* the model default, add_review looks the purchase up.
VerifiedStored(r) == IF r.path = "api" THEN FALSE ELSE Purchased(r.user, r.product)

SaveOutcome(r) ==
    IF r.product \notin DOMAIN products THEN "ServerError"
    ELSE IF UniqueViolation(r.user, r.product) THEN "ServerError"
    ELSE "ok"

\* serializer.save(...) / review.save(): the INSERT of a submission.
ReviewSave(r) ==
    /\ r \in inflight
    /\ LET out == SaveOutcome(r) IN
        /\ reviews' = IF out = "ok"
                      THEN reviews \cup {[user |-> r.user, product |-> r.product,
                                          rating |-> r.rating, verified |-> VerifiedStored(r)]}
                      ELSE reviews
        /\ last' = Response(IF r.path = "api" THEN "api_review_create" ELSE "add_review",
                            r.user, r.product, out)
    /\ inflight' = inflight \ {r}
    /\ UNCHANGED <<catalogVars, permVars, orderVars>>

\* ---------------------------------------------------------- notifications
\* What the tweet helper does in a run: the TWEET_NEW_* flag is off,
\* TWEET_ENABLED is off, the helper module could not be imported,
\* get_tweet_client raises or returns no client, make_tweet raises, returns
\* False or posts.
TweetOutcomes ==
    {"off", "disabled", "missing", "client_raises", "no_client",
     "tweet_raises", "false", "posted"}

\* api/views.py lines 58-66: the body of the try block.
TweetBody(t) ==
    IF t = "client_raises" THEN "raised"
    ELSE IF t = "no_client" THEN "returned"
    ELSE IF t = "tweet_raises" THEN "raised"
    ELSE "returned"

\* Faulty variant: the helper is called outside try / except.
TweetUnguarded(t) ==
    IF t \in {"off", "disabled", "missing"} THEN "returned" ELSE TweetBody(t)

\* api/views.py: the flag test of perform_create and _tweet_safely
TweetSafely(t) ==
    IF t = "off" THEN "returned"
    ELSE IF t = "disabled" THEN "returned"
    ELSE IF t = "missing" THEN "returned"
    ELSE IF TweetBody(t) = "raised" THEN "returned"
    ELSE TweetBody(t)

\* What the mail backend does with the invoice.
MailOutcomes == {"sent", "no_recipient", "smtp_error"}

\* send_mail(..., fail_silently=True)
SendMail(m) == "returned"

\* ProductListCreateAPIView.perform_create: serializer.save(), then the tweet.
\* An exception after the save would answer 500 with the product stored.
ApiProductCreateTweeting(u, data, t) ==
    IF ApiProductCreateOutcome(u, data) = "ok" /\ TweetSafely(t) = "raised"
    THEN /\ nextProduct <= MaxProducts
         /\ products' = [pk \in DOMAIN products \cup {nextProduct} |->
                            IF pk = nextProduct THEN NewProduct(data) ELSE products[pk]]
         /\ nextProduct' = nextProduct + 1
         /\ last' = Response("api_product_create", u, nextProduct, "ServerError")
         /\ UNCHANGED <<stores, nextStore, permVars, orderVars, reviewVars>>
    ELSE ApiProductCreate(u, data)

\* ProductReviewListCreateAPIView.perform_create: serializer.save(), then the
\* tweet.
ReviewSaveTweeting(r, t) ==
    IF r \in inflight /\ r.path = "api" /\ SaveOutcome(r) = "ok" /\ TweetSafely(t) = "raised"
    THEN /\ reviews' = reviews \cup {[user |-> r.user, product |-> r.product,
                                      rating |-> r.rating, verified |-> VerifiedStored(r)]}
         /\ last' = Response("api_review_create", r.user, r.product, "ServerError")
         /\ inflight' = inflight \ {r}
         /\ UNCHANGED <<catalogVars, permVars, orderVars>>
    ELSE ReviewSave(r)

\* place_order lines 476-504: the invoice is mailed inside the transaction;
\* an exception there would roll the order back.
PlaceOrderFinishMailing(u, m) ==
    IF pc[u] = "locking" /\ PlaceOrderOutcome(u) = "ok" /\ SendMail(m) = "raised"
    THEN /\ Wanted(u) \subseteq DOMAIN rows[u]
         /\ last' = Response("place_order", u, 0, "ServerError")
         /\ pc' = [pc EXCEPT ![u] = "idle"]
         /\ snap' = [snap EXCEPT ![u] = EmptyFn]
         /\ rows' = [rows EXCEPT ![u] = EmptyFn]
         /\ UNCHANGED <<catalogVars, permVars, orders, cart, hasCart, reviewVars>>
    ELSE PlaceOrderFinish(u)

\* ------------------------------------------------------ safe-method requests
\* rest_framework.permissions.SAFE_METHODS
SafeMethods == {"GET", "HEAD", "OPTIONS"}

\* rest_framework IsAuthenticatedOrReadOnly.has_permission
IsAuthenticatedOrReadOnlyHasPermission(method, u) ==
    method \in SafeMethods \/ IsAuthenticated(u)

\* Faulty variant: the SAFE_METHODS shortcut is left out.
IsVendorWithoutSafeMethods(method, u) == IsVendorPermission(u)

\* api/permissions.py: IsVendor.has_permission
IsVendorHasPermission(method, u) ==
    IF method \in SafeMethods THEN TRUE ELSE IsVendorPermission(u)

\* api/permissions.py: IsBuyer.has_permission
IsBuyerHasPermission(method, u) ==
    IF method \in SafeMethods THEN TRUE ELSE IsBuyerPermission(u)

\* api/permissions.py: IsOwnerOrReadOnly.has_object_permission
IsOwnerOrReadOnlyHasObjectPermission(method, u, p) ==
    IF method \in SafeMethods THEN TRUE ELSE IsOwnerOrReadOnly(u, p)

\* A denied request answers 401 without credentials and 403 with them.
Denied(u) == IF IsAuthenticated(u) THEN "RoleNotPermitted" ELSE "AuthenticationRequired"

\* The list views with [IsAuthenticatedOrReadOnly, IsVendor]: GET/HEAD/OPTIONS
\* on /api/products/ and /api/stores/.
ListOutcome(method, u) ==
    IF ~IsAuthenticatedOrReadOnlyHasPermission(method, u) THEN Denied(u)
    ELSE IF ~IsVendorHasPermission(method, u) THEN Denied(u)
    ELSE "ok"

\* ProductDetailAPIView: get_object, then the object permission.  OPTIONS
\* answers the metadata without fetching the object.
RetrieveOutcome(method, u, pk) ==
    IF method = "OPTIONS" THEN "ok"
    ELSE IF pk \notin DOMAIN products THEN "NotFound"
    ELSE IF ~IsOwnerOrReadOnlyHasObjectPermission(method, u, products[pk]) THEN Denied(u)
    ELSE "ok"

\* ProductReviewListCreateAPIView: permissions, then get_queryset.
ReviewListOutcome(method, u, pk) ==
    IF ~IsAuthenticatedOrReadOnlyHasPermission(method, u) THEN Denied(u)
    ELSE IF ~IsBuyerHasPermission(method, u) THEN Denied(u)
    ELSE IF method = "OPTIONS" THEN "ok"
    ELSE IF pk \notin DOMAIN products THEN "NotFound"
    ELSE "ok"

\* A request with a safe method renders a response and writes nothing.
Read(op, u, target, out) ==
    /\ last' = Response(op, u, target, out)
    /\ UNCHANGED <<catalogVars, permVars, orderVars, reviewVars>>

ApiProductList(method, u) ==
    Read("api_product_list", u, 0, ListOutcome(method, u))

ApiStoreList(method, u) ==
    Read("api_store_list", u, 0, ListOutcome(method, u))

ApiProductRetrieve(method, u, pk) ==
    Read("api_product_retrieve", u, pk, RetrieveOutcome(method, u, pk))

ApiReviewList(method, u, pk) ==
    Read("api_review_list", u, pk, ReviewListOutcome(method, u, pk))

ReadOps ==
    {"api_product_list", "api_store_list", "api_product_retrieve", "api_review_list"}

\* ------------------------------------------------ specification: reviews
\* One product of vendor1's store, of which buyer1 has bought one unit.
InitReview ==
    /\ stores = (1 :> [vendor |-> "vendor1", name |-> "Acme"]) @@
                (2 :> [vendor |-> "vendor2", name |-> "Other"])
    /\ products = (1 :> [store |-> 1, name |-> "Widget", price |-> 1, stock |-> 1])
    /\ nextStore = 3
    /\ nextProduct = 2
    /\ userPerms = {}
    /\ groupPerms = {"Vendors"}
    /\ orders = <<[user |-> "buyer1", total |-> 1,
                   items |-> {[product |-> 1, qty |-> 1, price_snapshot |-> 1]}]>>
    /\ cart = [s \in Shoppers |-> EmptyFn]
    /\ hasCart = [s \in Shoppers |-> FALSE]
    /\ pc = [s \in Shoppers |-> "idle"]
    /\ snap = [s \in Shoppers |-> EmptyFn]
    /\ rows = [s \in Shoppers |-> EmptyFn]
    /\ reviews = {}
    /\ inflight = {}
    /\ last = NoRequest

NextReview ==
    \/ \E u \in ReviewPrincipals, pk \in TargetIds, rating \in RatingInputs, c \in BOOLEAN :
            ApiReviewSubmit(u, pk, rating, c)
    \/ \E u \in ReviewPrincipals, pk \in TargetIds, rating \in RatingInputs :
            AddReviewSubmit(u, pk, rating)
    \/ \E r \in inflight : ReviewSave(r)

SpecReview == InitReview /\ [][NextReview]_vars

\* ------------------------------------------- specification: notifications
\* A vendor posts a product, buyers review through the API and a shopper
\* orders, each with every behaviour of the tweet helper and the mail backend.
NotifyPosters == {"vendor1", "buyer1"}

\* Bodies without stock: the product is stored with the default stock 0.
NotifyPayloads == {data \in Payloads : DOMAIN data = {"store", "name", "price"}}

NotifyReviewers == {"buyer1"}

\* Products in stock are the ones reviewed and ordered.
NotifyTargets == DOMAIN products \ {pk \in DOMAIN products : products[pk].stock = 0}

NextNotify ==
    \/ \E u \in NotifyPosters, data \in NotifyPayloads, t \in TweetOutcomes :
            ApiProductCreateTweeting(u, data, t)
    \/ \E u \in NotifyReviewers, pk \in NotifyTargets, rating \in RatingInputs :
            ApiReviewSubmit(u, pk, rating, FALSE)
    \/ \E r \in inflight, t \in TweetOutcomes : ReviewSaveTweeting(r, t)
    \/ \E u \in LedgerShoppers, pk \in NotifyTargets, q \in 1..MaxQty : AddToCart(u, pk, q)
    \/ \E u \in LedgerShoppers : PlaceOrderBegin(u)
    \/ \E u \in LedgerShoppers, pk \in ProductIds : PlaceOrderLock(u, pk)
    \/ \E u \in LedgerShoppers, m \in MailOutcomes : PlaceOrderFinishMailing(u, m)

SpecNotify == InitReview /\ [][NextNotify]_vars

\* ------------------------------------------- specification: safe methods
\* Safe-method requests of every kind of principal, interleaved with review
\* submissions through add_review.
NextRead ==
    \/ \E u \in ReviewPrincipals, pk \in TargetIds, rating \in RatingInputs :
            AddReviewSubmit(u, pk, rating)
    \/ \E r \in inflight : ReviewSave(r)
    \/ \E method \in SafeMethods, u \in ReviewPrincipals : ApiProductList(method, u)
    \/ \E method \in SafeMethods, u \in ReviewPrincipals : ApiStoreList(method, u)
    \/ \E method \in SafeMethods, u \in ReviewPrincipals, pk \in TargetIds :
            ApiProductRetrieve(method, u, pk)
    \/ \E method \in SafeMethods, u \in ReviewPrincipals, pk \in TargetIds :
            ApiReviewList(method, u, pk)

SpecRead == InitReview /\ [][NextRead]_vars

\* ================================================================ claims
\* ---------------------------------------------------------------- orders
ItemQty(o, pk) ==
    IF \E it \in o.items : it.product = pk
    THEN (CHOOSE it \in o.items : it.product = pk).qty
    ELSE 0

\* Quantity of a product over all committed OrderItems.
Sold(pk) ==
    SumOver([i \in 1..Len(orders) |-> ItemQty(orders[i], pk)], 1..Len(orders))

\* C1: concurrent place_order runs never oversell: in every reachable state
\* each product's stock is >= 0 and the quantity sold over all committed
\* OrderItems of the product does not exceed the stock it had before them.
C1_NoOversell ==
    \A pk \in DOMAIN products :
        /\ products[pk].stock >= 0
        /\ Sold(pk) <= SeedProducts[pk].stock

\* Two runs are in progress at once, one holds a row the other waits for, and
\* the stock does not cover the sum of their quantities.
C1_Witness ==
    \E u \in Shoppers, o \in Shoppers, pk \in DOMAIN products :
        /\ u # o /\ pc[u] = "locking" /\ pc[o] = "locking"
        /\ pk \in DOMAIN rows[o] /\ pk \in Wanted(u) \ DOMAIN rows[u]
        /\ snap[u][pk] + snap[o][pk] > products[pk].stock

\* C2: a place_order whose cart has a line asking for more than the product's
\* current stock creates no Order and no OrderItem and leaves every
\* product's stock unchanged.
C2_RejectsWhole ==
    [][\A u \in Shoppers :
         (/\ PlaceOrderFinish(u)
          /\ \E pk \in Wanted(u) : snap[u][pk] > products[pk].stock)
         => (orders' = orders /\ products' = products)]_vars

\* A placement was refused for stock while another line of the same cart
\* was in stock.
C2_Witness ==
    /\ last.op = "place_order" /\ last.outcome = "InsufficientStock"
    /\ \E a \in DOMAIN cart[last.user], b \in DOMAIN cart[last.user] :
        /\ a \in DOMAIN products /\ b \in DOMAIN products
        /\ cart[last.user][a] > products[a].stock
        /\ cart[last.user][b] <= products[b].stock

\* C3: when every cart line asks for 1..stock of an existing product the
\* placement commits: one new Order of the buyer with one OrderItem per line,
\* each stock lowered by exactly the quantity, total = sum of price * qty,
\* and the buyer's cart empty.
Satisfiable(u) ==
    /\ snap[u] # EmptyFn
    /\ \A pk \in DOMAIN snap[u] :
        /\ pk \in DOMAIN products
        /\ 1 <= snap[u][pk] /\ snap[u][pk] <= products[pk].stock

C3_Commits ==
    [][\A u \in Shoppers :
         (PlaceOrderFinish(u) /\ Satisfiable(u)) =>
            /\ Len(orders') = Len(orders) + 1
            /\ \A i \in 1..Len(orders) : orders'[i] = orders[i]
            /\ LET o == orders'[Len(orders')] IN
                /\ o.user = u
                /\ {it.product : it \in o.items} = DOMAIN snap[u]
                /\ Cardinality(o.items) = Cardinality(DOMAIN snap[u])
                /\ \A it \in o.items : it.qty = snap[u][it.product]
                /\ o.total = SumOver([pk \in DOMAIN snap[u] |->
                                        products[pk].price * snap[u][pk]], DOMAIN snap[u])
            /\ DOMAIN products' = DOMAIN products
            /\ \A pk \in DOMAIN products :
                products'[pk] = IF pk \in DOMAIN snap[u]
                                THEN [products[pk] EXCEPT !.stock = @ - snap[u][pk]]
                                ELSE products[pk]
            /\ cart'[u] = EmptyFn]_vars

\* An order of two lines was just committed and left stock behind.
C3_Witness ==
    /\ last.op = "place_order" /\ last.outcome = "ok"
    /\ cart[last.user] = EmptyFn
    /\ Cardinality(orders[Len(orders)].items) = 2
    /\ orders[Len(orders)].user = last.user
    /\ \E pk \in DOMAIN products : products[pk].stock > 0 /\ Sold(pk) > 0

\* ---------------------------------------------------------------- policy
Denials == {"AuthenticationRequired", "RoleNotPermitted", "NotOwner",
            "MissingFieldPermission", "StoreImmutable"}

ProductWrites == {"api_product_update", "api_product_delete",
                  "product_update", "product_delete"}

\* The permission tables give u the price capability (read from the raw
\* tables, independently of the lookups the views perform).
Granted(u) == u \in userPerms \/ \E g \in groupPerms : u \in GroupMembers[g]

ElevatedUser(u) == u \in StaffUsers \/ u \in Superusers

VendorOf(pk) ==
    IF products[pk].store = NullStore THEN Anon ELSE stores[products[pk].store].vendor

KeepsStore(pk, data) == Has(data, "store") => data["store"] = products[pk].store

\* C4 (as stated): no step changes the store of an existing product.
C4_StoreNeverChanges ==
    [][\A pk \in DOMAIN products \cap DOMAIN products' :
         products'[pk].store = products[pk].store]_vars

\* C5: for a principal that is neither staff nor superuser and holds no
\* can_change_product_price, every API PATCH/PUT whose payload has price is
\* denied and leaves the product unchanged, also for the owning vendor; once
\* the owner holds the capability the same request succeeds and sets the price.
C5_Denied ==
    \A u \in Principals, m \in Methods, pk \in DOMAIN products, data \in Payloads :
        (~ElevatedUser(u) /\ ~Granted(u) /\ Has(data, "price"))
            => ApiProductUpdateOutcome(u, m, pk, data) \in Denials

C5_AllowedOnceGranted ==
    \A u \in Principals, m \in Methods, pk \in DOMAIN products, data \in Payloads :
        (/\ u = VendorOf(pk) /\ InGroup(u, "Vendors") /\ Granted(u)
         /\ Has(data, "price") /\ KeepsStore(pk, data)
         /\ ProductFieldsValid(data, m = "PATCH"))
            => ApiProductUpdateOutcome(u, m, pk, data) = "ok"

PricePayloads == {data \in Payloads : Has(data, "price")}

C5_Effect ==
    /\ (last'.op = "api_product_update" /\ last'.outcome # "ok")
            => products' = products
    /\ (last'.op = "api_product_update" /\ last'.target \in DOMAIN products
        /\ products'[last'.target].price # products[last'.target].price)
            => (ElevatedUser(last'.user) \/ Granted(last'.user))
    /\ (last'.op = "api_product_update" /\ last'.outcome = "ok")
            => \A data \in PricePayloads :
                ~(/\ products'[last'.target].price # data["price"]
                  /\ \E m \in Methods : ApiProductUpdate(last'.user, m, last'.target, data))

C5_PriceGuard == [](C5_Denied /\ C5_AllowedOnceGranted) /\ [][C5_Effect]_vars

\* The owning vendor, holding the capability only through a direct grant, has
\* just set a new price through the API.
C5_Witness ==
    /\ last.op = "api_product_update" /\ last.outcome = "ok"
    /\ last.target \in DOMAIN products
    /\ last.user = VendorOf(last.target)
    /\ groupPerms = {} /\ last.user \in userPerms
    /\ products[last.target].price = 2
    /\ products[last.target].name = "Widget"

\* C6 (as stated): over every write path a product's price changes only by
\* a principal holding the capability or being staff/superuser.
C6_PriceOnlyByCapability ==
    [][\A pk \in DOMAIN products \cap DOMAIN products' :
         products'[pk].price # products[pk].price
            => (ElevatedUser(last'.user) \/ Granted(last'.user))]_vars

\* C7 (as stated): every create, update and delete of a Store or Product
\* requested by a principal that is neither staff/superuser nor in Vendors
\* (anonymous included) is refused and leaves stores and products unchanged,
\* also when the principal owns the product's store.
CatalogWrites == {"api_store_create", "store_create", "store_update", "store_delete",
                  "api_product_create", "product_create"} \cup ProductWrites

C7_NonVendorsNeverWrite ==
    [][(/\ last'.op \in CatalogWrites
        /\ ~ElevatedUser(last'.user)
        /\ last'.user \notin GroupMembers["Vendors"])
         => (/\ last'.outcome # "ok"
             /\ stores' = stores
             /\ products' = products)]_vars

\* C8: an authenticated non-staff principal that is not the vendor of a
\* product's store is denied every update and delete of it and the product is
\* left unchanged; the owning vendor's same request is allowed.
Outsider(u, pk) ==
    /\ u # Anon /\ ~ElevatedUser(u)
    /\ pk \in DOMAIN products /\ VendorOf(pk) # u

C8_Denied ==
    \A u \in Principals, pk \in DOMAIN products :
        Outsider(u, pk) =>
            /\ \A m \in Methods, data \in Payloads :
                    ApiProductUpdateOutcome(u, m, pk, data) \in Denials
            /\ ApiProductDeleteOutcome(u, pk) \in Denials
            /\ \A form \in FormInputs :
                    ProductUpdateOutcome(u, pk, form) \in Denials \cup {"NotFound"}
            /\ ProductDeleteOutcome(u, pk) \in Denials \cup {"NotFound"}

C8_OwnerAllowed ==
    \A u \in Principals, pk \in DOMAIN products :
        (u # Anon /\ u = VendorOf(pk) /\ InGroup(u, "Vendors")) =>
            /\ \A m \in Methods, data \in Payloads :
                (KeepsStore(pk, data) /\ ~Has(data, "price")
                 /\ ProductFieldsValid(data, m = "PATCH"))
                    => ApiProductUpdateOutcome(u, m, pk, data) = "ok"
            /\ ~Ordered(pk) => ApiProductDeleteOutcome(u, pk) = "ok"

C8_Effect ==
    (last'.op \in ProductWrites /\ Outsider(last'.user, last'.target))
        => products' = products

C8_OwnerOnly == [](C8_Denied /\ C8_OwnerAllowed) /\ [][C8_Effect]_vars

\* Another vendor was just refused as not being the owner, and the product
\* carries a name its owner gave it through the API.
C8_Witness ==
    /\ last.op = "api_product_update" /\ last.outcome = "NotOwner"
    /\ last.user = "vendor2" /\ last.target \in DOMAIN products
    /\ VendorOf(last.target) = "vendor1"
    /\ products[last.target].name = "Gadget"

\* C9 (as stated): no write of a staff or superuser principal on an existing
\* product is rejected for role or ownership, neither by the permission
\* classes nor by the serializer validation.
C9_StaffNeverRejected ==
    [][(/\ last'.op \in {"api_product_update", "api_product_delete"}
        /\ ElevatedUser(last'.user)
        /\ last'.target \in DOMAIN products)
         => last'.outcome \notin {"RoleNotPermitted", "NotOwner"}]_vars

\* C10 (as stated): a staff principal that is not superuser and holds no
\* price capability is not denied an API update that carries price.
C10_StaffPriceBypass ==
    [][(/\ last'.op = "api_product_update"
        /\ last'.user \in StaffUsers \ Superusers
        /\ ~Granted(last'.user))
         => last'.outcome # "MissingFieldPermission"]_vars

\* --------------------------------------------------------------- reviews
\* C11: in every reachable state there is at most one Review per (user,
\* product), also with submissions racing through the API and add_review; a
\* submission for a pair that already has a review is rejected, at its check
\* or at its save, and no step alters or removes an existing review.
C11_AtMostOne ==
    \A r1 \in reviews, r2 \in reviews :
        (r1.user = r2.user /\ r1.product = r2.product) => r1 = r2

C11_SecondRejected ==
    /\ \A u \in ReviewPrincipals, pk \in DOMAIN products, rating \in RatingInputs :
            Reviewed(u, pk) =>
                /\ ApiReviewOutcome(u, pk, rating) # "ok"
                /\ AddReviewOutcome(u, pk, rating) # "ok"
    /\ \A r \in inflight : Reviewed(r.user, r.product) => SaveOutcome(r) # "ok"

C11_Kept == \A r \in reviews : r \in reviews'

C11_OneReviewPerPair ==
    [](C11_AtMostOne /\ C11_SecondRejected) /\ [][C11_Kept]_vars

\* Two submissions of one user for one product raced: one was saved, the
\* other passed its duplicate check and was refused at its save.
C11_Witness ==
    /\ last.op \in {"api_review_create", "add_review"}
    /\ last.outcome = "ServerError"
    /\ \E r \in reviews : r.user = last.user /\ r.product = last.target

\* C12 (as stated): no Review is written by the vendor of the store its
\* product belongs to, whichever path the submission took.
C12_NoSelfReview ==
    \A r \in reviews :
        r.product \in DOMAIN products =>
            LET store == products[r.product].store IN
            store \in DOMAIN stores => stores[store].vendor # r.user

\* C13 (as stated): every Review was written by a member of Buyers or by a
\* staff or superuser principal.
C13_BuyersOnly ==
    \A r \in reviews : InGroup(r.user, "Buyers") \/ IsStaffOrSuperuser(r.user)

\* C14 (as stated): a step that saves a Review stores verified = TRUE exactly
\* when its author has an OrderItem for the product at that moment, on the
\* API path as on add_review.
C14_VerifiedIffPurchased ==
    [][\A r \in reviews' \ reviews :
            r.verified = Purchased(r.user, r.product)]_vars

\* ------------------------------------------------------------ safe methods
\* C15: IsVendor, IsBuyer and IsOwnerOrReadOnly allow every request with a
\* safe method (GET, HEAD, OPTIONS) for every principal, anonymous and
\* non-owners included, and such a request changes no stored state.
C15_Allowed ==
    \A method \in {"GET", "HEAD", "OPTIONS"}, u \in Principals :
        /\ IsVendorHasPermission(method, u)
        /\ IsBuyerHasPermission(method, u)
        /\ \A pk \in DOMAIN products :
                IsOwnerOrReadOnlyHasObjectPermission(method, u, products[pk])

C15_Frame ==
    (last' # last /\ last'.op \in ReadOps) =>
        /\ last'.outcome \in {"ok", "NotFound"}
        /\ UNCHANGED <<stores, products, userPerms, groupPerms, orders, cart,
                       hasCart, reviews, inflight>>

C15_SafeMethodsOpen == [](C15_Allowed) /\ [][C15_Frame]_vars

\* An anonymous principal read a product of another principal's store while
\* a review of it is stored.
C15_Witness ==
    /\ last.op = "api_product_retrieve"
    /\ last.user = Anon
    /\ last.outcome = "ok"
    /\ last.target \in DOMAIN products
    /\ \E r \in reviews : r.product = last.target

C17_Committed ==
    Len(orders') > Len(orders) =>
        \A it \in orders'[Len(orders')].items :
            /\ it.price_snapshot = products[it.product].price
            /\ it.price_snapshot = products'[it.product].price

C17_Kept ==
    /\ Len(orders') >= Len(orders)
    /\ \A i \in 1..Len(orders) : orders'[i] = orders[i]

C17_SnapshotFrozen == [][C17_Committed /\ C17_Kept]_vars

\* The price of an ordered product was changed after the order, a further
\* order followed, and the first order still holds the old price.
C17_Witness ==
    /\ Len(orders) >= 2
    /\ \E it \in orders[1].items :
            /\ it.price_snapshot # products[it.product].price
            /\ products[it.product].stock < SeedProducts[it.product].stock

\* C18: place_order on an empty cart, or on a cart without a positive
\* quantity for an existing product, is rejected: no Order or OrderItem is
\* created and no product's stock changes.
NoValidItem(c) == \A pk \in DOMAIN c \cap DOMAIN products : c[pk] <= 0

C18_Rejected ==
    \A u \in Shoppers :
        (/\ last' # last
         /\ last'.op = "place_order"
         /\ last'.user = u
         /\ \/ pc[u] = "idle" /\ NoValidItem(cart[u])
            \/ pc[u] = "locking" /\ NoValidItem(snap[u]))
        => /\ last'.outcome = "EmptyCart"
           /\ orders' = orders
           /\ products' = products

C18_EmptyCartRejected == [][C18_Rejected]_vars

\* A cart naming only a product that does not exist was refused.
C18_Witness ==
    /\ last.op = "place_order"
    /\ last.outcome = "EmptyCart"
    /\ cart[last.user] # EmptyFn
    /\ NoValidItem(cart[last.user])

\* ------------------------------------------------------------------ stores
\* C19: a store created through the API or through store_create has the
\* authenticated requester as its vendor, whatever vendor the request body
\* names, and a creation request of a principal outside Vendors creates no
\* store.
StoreCreates == {"api_store_create", "store_create"}

C19_Created ==
    \A sid \in DOMAIN stores' \ DOMAIN stores :
        /\ last'.op \in StoreCreates
        /\ last'.outcome = "ok"
        /\ last'.user # Anon
        /\ stores'[sid].vendor = last'.user
        /\ last'.user \in GroupMembers["Vendors"]

C19_Refused ==
    (/\ last' # last
     /\ last'.op \in StoreCreates
     /\ last'.user \notin GroupMembers["Vendors"])
    => (last'.outcome # "ok" /\ stores' = stores)

C19_VendorIsRequester == [][C19_Created /\ C19_Refused]_vars

\* vendor1 created a store through the API; every body named another user.
C19_Witness ==
    /\ last.op = "api_store_create"
    /\ last.outcome = "ok"
    /\ last.user = "vendor1"
    /\ last.user \notin ClaimedVendors
    /\ last.target \in DOMAIN stores
    /\ stores[last.target].vendor = "vendor1"

\* -------------------------------------------------------- product values
\* C20 (as stated): every stored product has price >= 0 and stock >= 0,
\* negative values being rejected on every write path.
C20_NonNegative ==
    \A pk \in DOMAIN products : products[pk].price >= 0 /\ products[pk].stock >= 0

\* ------------------------------------------------------- product creation
\* C21: a product is created only in a store owned by the creating
\* principal: a creation by a Vendor naming another user's store, or no
\* store, is rejected and creates no product, through the API and through
\* product_create.
ProductCreates == {"api_product_create", "product_create"}

C21_Created ==
    \A pk \in DOMAIN products' \ DOMAIN products :
        /\ last'.op \in ProductCreates
        /\ products'[pk].store \in DOMAIN stores
        /\ stores[products'[pk].store].vendor = last'.user

C21_Refused ==
    \A u \in GroupMembers["Vendors"] :
        /\ \A data \in Payloads :
              (\/ ~Has(data, "store")
               \/ data["store"] \notin DOMAIN stores
               \/ stores[data["store"]].vendor # u)
              => ApiProductCreateOutcome(u, data) # "ok"
        /\ \A form \in FormInputs :
              (form.store \notin DOMAIN stores \/ stores[form.store].vendor # u)
              => ProductCreateOutcome(u, form) # "ok"

C21_OwnStoreOnly == [](C21_Refused) /\ [][C21_Created]_vars

\* vendor1, owner of two stores by now, posted a product naming vendor2's
\* store to the API and was refused; the product was not created.
C21_Witness ==
    /\ last.op = "api_product_create"
    /\ last.user = "vendor1"
    /\ last.outcome = "NotOwner"
    /\ last.target \notin DOMAIN products
    /\ Cardinality(StoresOfUser("vendor1")) = 2

\* ----------------------------------------------------------- notifications
\* C22: a failure of the notification never changes the outcome of the
\* operation that triggered it: whatever the tweet helper and the mail
\* backend do, the product or review is created and the order committed with
\* the answer "ok", and no error reaches the caller.
C22_Swallowed ==
    /\ \A t \in TweetOutcomes : TweetSafely(t) = "returned"
    /\ \A m \in MailOutcomes : SendMail(m) = "returned"

C22_SameOutcome ==
    /\ DOMAIN products' # DOMAIN products => last'.outcome = "ok"
    /\ reviews' # reviews => last'.outcome = "ok"
    /\ \A u \in Shoppers :
          (pc[u] = "locking" /\ pc'[u] = "idle" /\ PlaceOrderOutcome(u) = "ok")
          => (last'.outcome = "ok" /\ Len(orders') = Len(orders) + 1
              /\ orders'[Len(orders')] = NewOrder(u))
    /\ (last' # last /\ last'.op \in {"api_product_create", "api_review_create"}
        /\ last'.outcome = "ServerError")
          => (products' = products /\ reviews' = reviews)

C22_NotificationNeverFails == [](C22_Swallowed) /\ [][C22_SameOutcome]_vars

\* A product, a review and an order exist, each made by a request whose
\* notification could have failed.
C22_Witness ==
    /\ Cardinality(DOMAIN products) = 2
    /\ reviews # {}
    /\ Len(orders) = 2
    /\ last.outcome = "ok"

\* ------------------------------------------------------------------ rating
\* C23: in every reachable state every stored Review has a rating between 1
\* and 5: a submission with a rating outside that range is rejected by the
\* API serializer and by add_review and creates no Review.
C23_Stored == \A r \in reviews \cup inflight : 1 <= r.rating /\ r.rating <= 5

C23_Rejected ==
    \A u \in ReviewPrincipals, pk \in TargetIds, rating \in RatingInputs :
        (rating < 1 \/ rating > 5) =>
            /\ ApiReviewOutcome(u, pk, rating) # "ok"
            /\ AddReviewOutcome(u, pk, rating) # "ok"

C23_RatingInRange == C23_Stored /\ C23_Rejected

\* With a review stored, a further submission was refused as invalid.
C23_Witness ==
    /\ last.op \in {"api_review_create", "add_review"}
    /\ last.outcome = "InvalidValue"
    /\ last.user = "staff1"
    /\ \E r \in reviews : r.rating = 5

\* --------------------------------------------------------- denial reasons
\* C24 (as stated): an API update of an existing product that names a store
\* other than the product's current store is denied as StoreImmutable for
\* every principal, before the role and ownership checks.
StoreMoves(pk) ==
    {data \in Payloads : /\ DOMAIN data = {"store"}
                         /\ data["store"] \in DOMAIN stores
                         /\ data["store"] # products[pk].store}

C24_StoreImmutableFirst ==
    \A u \in Principals, pk \in DOMAIN products :
        \A data \in StoreMoves(pk) :
            ApiProductUpdateOutcome(u, "PATCH", pk, data) = "StoreImmutable"
\* C25 (as stated): on a product update the role check precedes the
\* ownership check, which precedes the price permission: an API PATCH or PUT
\* from a Vendor who does not own the product is denied as NotOwner, also
\* when it carries a price and the Vendor lacks can_change_product_price.
C25_OwnershipBeforePrice ==
    [][(/\ last' # last
        /\ last'.op = "api_product_update"
        /\ last'.user \in GroupMembers["Vendors"]
        /\ last'.target \in DOMAIN products
        /\ VendorOf(last'.target) # last'.user)
         => last'.outcome = "NotOwner"]_vars
\* ---------------------------------------------------- concurrent placement
\* C26 (as stated): every place_order run ends as Committed or Rejected,
\* also when runs with overlapping product sets execute concurrently: the
\* step that ends a run and releases its row locks answers "ok",
\* "InsufficientStock" or "EmptyCart".
C26_EndsCommittedOrRejected ==
    [][\A u \in Shoppers :
         (pc[u] = "locking" /\ pc'[u] = "idle")
            => last'.outcome \in {"ok", "InsufficientStock", "EmptyCart"}]_vars
\* -------------------------------------------------------------------- cart
\* C27 (as stated): every entry of a session cart has quantity >= 1, and
\* update_cart_qty sets the quantity of the named product exactly, removing
\* the entry when the quantity is <= 0.
C27_CartQuantities ==
    \A u \in Shoppers :
        /\ \A pk \in DOMAIN cart[u] : cart[u][pk] >= 1
        /\ \A pk \in ProductIds, q \in 0..MaxQty :
              LET c == UpdatedCart(u, pk, q) IN
              IF q <= 0 THEN pk \notin DOMAIN c
              ELSE pk \in DOMAIN c /\ c[pk] = q
\* C28: a place_order that is rejected (insufficient stock, or no valid
\* line) leaves the buyer's session cart exactly as it was; place_order
\* clears the cart only when it commits.
C28_Kept ==
    \A u \in Shoppers :
        /\ (pc[u] = "locking" /\ pc'[u] = "idle" /\ last'.outcome # "ok")
              => (cart'[u] = cart[u] /\ cart'[u] = snap[u] /\ hasCart'[u] = hasCart[u])
        /\ (pc[u] = "idle" /\ pc'[u] = "idle" /\ last' # last /\ last'.op = "place_order"
            /\ last'.user = u)
              => (last'.outcome = "EmptyCart" /\ cart'[u] = cart[u]
                  /\ hasCart'[u] = hasCart[u])
        /\ (pc[u] = "locking" /\ cart'[u] # cart[u])
              => (last'.op = "place_order" /\ last'.user = u /\ last'.outcome = "ok"
                  /\ Len(orders') = Len(orders) + 1)

C28_RejectionKeepsCart == [][C28_Kept]_vars

\* A placement was just refused for stock another shopper's order had
\* taken, and the cart still holds its lines.
C28_Witness ==
    /\ last.op = "place_order"
    /\ last.outcome = "InsufficientStock"
    /\ pc[last.user] = "idle"
    /\ hasCart[last.user]
    /\ cart[last.user] # EmptyFn
    /\ \E i \in 1..Len(orders) : orders[i].user # last.user
\* C29 (as stated): a committed place_order drops no cart line: the new
\* Order has exactly one OrderItem, with the cart's quantity, for every
\* product id of the cart it read, also for an id set through
\* update_cart_qty or the id of a product deleted meanwhile.
C29_NoLineDropped ==
    [][\A u \in Shoppers :
         (pc[u] = "locking" /\ pc'[u] = "idle" /\ Len(orders') = Len(orders) + 1)
            => LET o == orders'[Len(orders')] IN
               /\ {it.product : it \in o.items} = DOMAIN snap[u]
               /\ Cardinality(o.items) = Cardinality(DOMAIN snap[u])
               /\ \A it \in o.items : it.qty = snap[u][it.product]]_vars
\* C30: every OrderItem references a product that still exists and every
\* Order keeps all its items: no step of place_order, product_delete, the
\* API DELETE or store_delete removes a product an OrderItem references,
\* nor changes an Order already placed.
OrderedProducts == {pk \in ProductIds :
                      \E i \in 1..Len(orders) : \E it \in orders[i].items : it.product = pk}

C30_ItemsReferenceProducts ==
    \A i \in 1..Len(orders) : \A it \in orders[i].items : it.product \in DOMAIN products

C30_OrdersKept ==
    /\ \A i \in 1..Len(orders) : i <= Len(orders') /\ orders'[i] = orders[i]
    /\ \A pk \in OrderedProducts :
          /\ pk \in DOMAIN products'
          /\ products'[pk].store = products[pk].store
          /\ products[pk].store # NullStore => products[pk].store \in DOMAIN stores'

C30_OrderedProductsProtected == [](C30_ItemsReferenceProducts) /\ [][C30_OrdersKept]_vars

\* The owner's store_delete of a store holding an ordered product failed and
\* the store, the product and the order are still there.
C30_Witness ==
    /\ last.op = "store_delete"
    /\ last.outcome = "ServerError"
    /\ last.target \in DOMAIN stores
    /\ \E pk \in OrderedProducts : pk \in DOMAIN products /\ products[pk].store = last.target

====
